---- MODULE Spec2Model ----
(***************************************************************************)
(* A model of the wake-me crate: the Event facade (src/lib.rs), the        *)
(* Waker / WaitGuard tri-state cell (src/waker.rs) and the intrusive       *)
(* doubly linked list that holds the registered Wakers                     *)
(* (src/linked_list.rs).                                                   *)
(*                                                                         *)
(* Every listener thread l owns one cell, also called l: the Arc<AtomicU8> *)
(* shared by its Waker and its WaitGuard, the list node that carries the   *)
(* Waker, and the park token of the thread the Waker unparks.              *)
(***************************************************************************)
EXTENDS Integers, Sequences, FiniteSets, TLC

\* ------------------------------------------------------------- bounds
NumListeners == 2
NumNotifiers == 2
MaxTime == 2
MaxNodes == 4

\* ---------------------------------------------------------- constants
\* State as u8 (waker.rs:8-12)
Waiting == 0
Notified == 1
Dropped == 2
\* Option::None of a node pointer, and of the mutex owner
None == 0
\* The thread that owns the Event and drops it
Owner == 0

Listeners == 1..NumListeners
Notifiers == (NumListeners + 1)..(NumListeners + NumNotifiers)
Times == 0..MaxTime
\* The nodes (and the values they carry) of a LinkedList used on its own
ListNodes == 1..MaxNodes

VARIABLES
    head,           \* Event.chain: LinkedList.head (a node, or None)
    tail,           \* Event.chain: LinkedList.tail
    next,           \* Node.next of every node
    previous,       \* Node.previous of every node
    lock,           \* the thread holding Event.chain's mutex, or None
    num_listeners,  \* Event.num_listeners
    state,          \* the AtomicU8 of every cell
    token,          \* the park token of every listener thread
    pc,             \* where every thread is in the operation it runs
    count,          \* notify_one: the local `count`
    old_node,       \* notify_one: the local `old_node` (a node, or None)
    old_chain,      \* notify_all: the local `old_chain` <<head, tail>>
    node,           \* the local `node`: popped, iterated over, or being freed
    current,        \* Cursor.current / LinkedList::drop's `current`
    deadline,       \* wait_deadline: the argument `deadline`
    now,            \* Instant::now()
    result,         \* what the listener's last wait / wait_deadline returned
    invoked,        \* history: calls of the wake target of every cell
    notified,       \* history: successful Waiting -> Notified CASes per cell
    call,           \* history: the notifier's current or last call
    woken,          \* history: the cells the notifier's call moved to Notified
    snap,           \* history: the chain when notify_one took the mutex
    atstart,        \* history: the chain when the notify call began
    listenSince,    \* history: a listen() step ran since the call began
    wakes,          \* history: calls of Waker::wake on every cell
    removed         \* history: removals of every cell's entry from the chain

vars == <<head, tail, next, previous, lock, num_listeners, state, token, pc,
          count, old_node, old_chain, node, current, deadline, now, result,
          invoked, notified, call, woken, snap, atstart, listenSince, wakes,
          removed>>

listVars == <<head, tail, next, previous>>
timeVars == <<deadline, now>>
notifierLocals == <<count, old_node, old_chain, node, current>>
histVars == <<invoked, notified, call, woken, snap, atstart, listenSince,
              wakes, removed>>

\* ------------------------------------------------------------ State
\* impl From<u8> for State
StateFrom(value) ==
    CASE value = 0 -> "Waiting"
      [] value = 1 -> "Notified"
      [] value = 2 -> "Dropped"
      [] OTHER -> "panic"

\* WaitGuard::get_state
get_state(c) == StateFrom(state[c])

\* Mutant of compare_exchange: a store that does not compare
store_unconditionally(cur, expected, new) == new

\* AtomicU8::compare_exchange(expected, new): the value it leaves
compare_exchange(cur, expected, new) == IF cur = expected THEN new ELSE cur

\* Waker::is_dropped, used by notify_one: the cell is resolved as Dropped
is_dropped(c) == get_state(c) = "Dropped"

\* ------------------------------------------------------- LinkedList
\* The nodes of a list from node h on, following Node.next
RECURSIVE Nodes(_, _)
Nodes(h, nx) == IF h = None THEN <<>> ELSE <<h>> \o Nodes(nx[h], nx)

ChainSeq == Nodes(head, next)

SeqSet(s) == {s[i] : i \in 1..Len(s)}

\* The nodes of a list from node t back, following Node.previous
RECURSIVE NodesBack(_, _)
NodesBack(t, pv) == IF t = None THEN <<>> ELSE <<t>> \o NodesBack(pv[t], pv)

\* Mutant of push_node_front: the old head's previous is not set
push_node_front_no_previous(h, t, nx, pv, nd) ==
    [head |-> nd,
     tail |-> IF t = None THEN nd ELSE t,
     next |-> [nx EXCEPT ![nd] = h],
     previous |-> pv]

\* LinkedList::push_node_front on list <<h, t>>
push_node_front(h, t, nx, pv, nd) ==
    [head |-> nd,
     tail |-> IF t = None THEN nd ELSE t,
     next |-> [nx EXCEPT ![nd] = h],
     previous |-> IF h # None THEN [pv EXCEPT ![h] = nd] ELSE pv]

\* Mutant of push_node_back: the pushed node becomes the head as well
push_node_back_replaces_head(h, t, nx, pv, nd) ==
    [head |-> nd,
     tail |-> nd,
     next |-> IF t # None THEN [nx EXCEPT ![t] = nd] ELSE nx,
     previous |-> [pv EXCEPT ![nd] = t]]

\* LinkedList::push_node_back on list <<h, t>>
push_node_back(h, t, nx, pv, nd) ==
    [head |-> IF h = None THEN nd ELSE h,
     tail |-> nd,
     next |-> IF t # None THEN [nx EXCEPT ![t] = nd] ELSE nx,
     previous |-> [pv EXCEPT ![nd] = t]]

\* Mutant of pop_front: the node is taken from the tail
pop_front_takes_tail(h, t, nx, pv) ==
    IF t # None
    THEN LET nt == pv[t] IN
         [head |-> IF nt = None THEN None ELSE h,
          tail |-> nt,
          next |-> IF nt # None THEN [nx EXCEPT ![nt] = None] ELSE nx,
          previous |-> pv,
          node |-> t]
    ELSE [head |-> h, tail |-> t, next |-> nx, previous |-> pv, node |-> None]

\* Mutant of pop_front: the node is returned but stays linked as the head
pop_front_leaves_node(h, t, nx, pv) ==
    [head |-> h, tail |-> t, next |-> nx, previous |-> pv, node |-> h]

\* LinkedList::pop_front on list <<h, t>>: the new list and the node (or None)
pop_front(h, t, nx, pv) ==
    IF h # None
    THEN LET nh == nx[h] IN
         [head |-> nh,
          tail |-> IF nh = None THEN None ELSE t,
          next |-> nx,
          previous |-> IF nh # None THEN [pv EXCEPT ![nh] = None] ELSE pv,
          node |-> h]
    ELSE [head |-> h, tail |-> t, next |-> nx, previous |-> pv, node |-> None]

\* LinkedList::pop_back on list <<h, t>>: the new list and the node (or None)
pop_back(h, t, nx, pv) ==
    IF t # None
    THEN LET nt == pv[t] IN
         [head |-> IF nt = None THEN None ELSE h,
          tail |-> nt,
          next |-> IF nt # None THEN [nx EXCEPT ![nt] = None] ELSE nx,
          previous |-> pv,
          node |-> t]
    ELSE [head |-> h, tail |-> t, next |-> nx, previous |-> pv, node |-> None]

\* Mutant of take_list: the source list keeps its head and tail
take_list_keeps_source(h, t) == [taken |-> <<h, t>>, head |-> h, tail |-> t]

\* LinkedList::take_list: the list taken, and the list left
take_list(h, t) == [taken |-> <<h, t>>, head |-> None, tail |-> None]

\* ------------------------------------------------------- InnerWaker
\* Mutant of wake_by_ref: the unpark is lost
wake_by_ref_lost(tk, cs) == tk

\* InnerWaker::wake_by_ref on the targets in cs: Thread::unpark sets the token
wake_by_ref(tk, cs) == [c \in Listeners |-> IF c \in cs THEN TRUE ELSE tk[c]]

Invoke(cs) ==
    /\ token' = wake_by_ref(token, cs)
    /\ invoked' = [c \in Listeners |-> IF c \in cs THEN invoked[c] + 1 ELSE invoked[c]]

\* Mutant of WakerDropCas: the Waker's drop leaves the cell alone
WakerDropNoCas(s) == s

\* The cell after impl Drop for Waker's compare_exchange(Waiting, Dropped)
WakerDropCas(s) == compare_exchange(s, Waiting, Dropped)

\* Mutant of WakeCas: wake() writes Dropped instead of Notified
WakeCasWritesDropped(s) == compare_exchange(s, Waiting, Dropped)

\* The cell after Waker::wake's compare_exchange(Waiting, Notified)
WakeCas(s) == compare_exchange(s, Waiting, Notified)

\* The Event has not been dropped
Alive == pc[Owner] = "alive"

\* The WaitGuard of cell c exists and has been returned by listen()
GuardHeld(c) == pc[c] \in {"held", "w_loop", "w_park", "d_loop", "d_park"}

\* ------------------------------------------------------------- Init
Init ==
    /\ head = None
    /\ tail = None
    /\ next = [c \in Listeners |-> None]
    /\ previous = [c \in Listeners |-> None]
    /\ lock = None
    /\ num_listeners = 0
    /\ state = [c \in Listeners |-> Waiting]
    /\ token = [c \in Listeners |-> FALSE]
    /\ pc = [p \in Listeners \cup Notifiers \cup {Owner} |->
                IF p = Owner THEN "alive" ELSE "idle"]
    /\ count = [n \in Notifiers |-> 0]
    /\ old_node = [n \in Notifiers |-> None]
    /\ old_chain = [n \in Notifiers |-> <<None, None>>]
    /\ node = [n \in Notifiers \cup {Owner} |-> None]
    /\ current = [n \in Notifiers \cup {Owner} |-> None]
    /\ deadline = [c \in Listeners |-> 0]
    /\ now = 0
    /\ result = [c \in Listeners |-> "none"]
    /\ invoked = [c \in Listeners |-> 0]
    /\ notified = [c \in Listeners |-> 0]
    /\ call = [n \in Notifiers |-> "none"]
    /\ woken = [n \in Notifiers |-> {}]
    /\ snap = [n \in Notifiers |-> <<>>]
    /\ atstart = [n \in Notifiers |-> <<>>]
    /\ listenSince = [n \in Notifiers |-> FALSE]
    /\ wakes = [c \in Listeners |-> 0]
    /\ removed = [c \in Listeners |-> 0]

\* ----------------------------------------------------- Event::listen
\* Waker::new, Node::new and chain.lock()
Listen(l) ==
    /\ Alive
    /\ pc[l] = "idle"
    /\ lock = None
    /\ lock' = l
    /\ state' = [state EXCEPT ![l] = Waiting]
    /\ next' = [next EXCEPT ![l] = None]
    /\ previous' = [previous EXCEPT ![l] = None]
    /\ pc' = [pc EXCEPT ![l] = "l_add"]
    /\ listenSince' = [n \in Notifiers |-> TRUE]
    /\ UNCHANGED <<head, tail, num_listeners, token, notifierLocals, 
                   timeVars, result, invoked, notified, wakes, removed, call, woken, snap, atstart>>

\* Mutant of ListenAdd: the entry is not counted
ListenAddSkips(l) ==
    /\ pc[l] = "l_add"
    /\ pc' = [pc EXCEPT ![l] = "l_push"]
    /\ listenSince' = [n \in Notifiers |-> TRUE]
    /\ UNCHANGED <<listVars, lock, num_listeners, state, token, notifierLocals,
                   timeVars, result, invoked, notified, wakes, removed, call,
                   woken, snap, atstart>>

\* num_listeners.fetch_add(1)
ListenAdd(l) ==
    /\ pc[l] = "l_add"
    /\ num_listeners' = num_listeners + 1
    /\ pc' = [pc EXCEPT ![l] = "l_push"]
    /\ listenSince' = [n \in Notifiers |-> TRUE]
    /\ UNCHANGED <<listVars, lock, state, token, notifierLocals, 
                   timeVars, result, invoked, notified, wakes, removed, call, woken, snap, atstart>>

\* lock.push_node_back(node), the mutex released, the guard returned
ListenPush(l) ==
    /\ pc[l] = "l_push"
    /\ LET r == push_node_back(head, tail, next, previous, l) IN
        /\ head' = r.head
        /\ tail' = r.tail
        /\ next' = r.next
        /\ previous' = r.previous
    /\ lock' = None
    /\ pc' = [pc EXCEPT ![l] = "held"]
    /\ listenSince' = [n \in Notifiers |-> TRUE]
    /\ UNCHANGED <<num_listeners, state, token, notifierLocals, 
                   timeVars, result, invoked, notified, wakes, removed, call, woken, snap, atstart>>

\* -------------------------------------------------------- WaitGuard
\* Mutant of GuardDrop: the guard's drop stores Notified
GuardDropStoresNotified(l) ==
    /\ pc[l] = "held"
    /\ state' = [state EXCEPT ![l] = Notified]
    /\ pc' = [pc EXCEPT ![l] = "done"]
    /\ UNCHANGED <<listVars, lock, num_listeners, token, notifierLocals,
                   timeVars, result, histVars>>

\* impl Drop for WaitGuard: an unconditional store of Dropped
GuardDrop(l) ==
    /\ pc[l] = "held"
    /\ state' = [state EXCEPT ![l] = Dropped]
    /\ pc' = [pc EXCEPT ![l] = "done"]
    /\ UNCHANGED <<listVars, lock, num_listeners, token, notifierLocals, 
                   timeVars, result, histVars>>

\* WaitGuard::wait: one turn of the loop up to park, or the return
WaitRead(l) ==
    /\ pc[l] \in {"held", "w_loop"}
    /\ IF get_state(l) = "Waiting"
       THEN /\ pc' = [pc EXCEPT ![l] = "w_park"]
            /\ UNCHANGED result
       ELSE /\ pc' = [pc EXCEPT ![l] = "held"]
            /\ result' = [result EXCEPT ![l] = "returned"]
    /\ UNCHANGED <<listVars, lock, num_listeners, state, token, notifierLocals,
                   timeVars, histVars>>

\* std::thread::park returns with the token consumed
Park(l) ==
    /\ pc[l] = "w_park"
    /\ token[l]
    /\ token' = [token EXCEPT ![l] = FALSE]
    /\ pc' = [pc EXCEPT ![l] = "w_loop"]
    /\ UNCHANGED <<listVars, lock, num_listeners, state, notifierLocals, 
                   timeVars, result, invoked, notified, wakes, removed, call, woken, snap,
                   atstart, listenSince>>

\* std::thread::park returns spuriously
ParkSpurious(l) ==
    /\ pc[l] = "w_park"
    /\ ~token[l]
    /\ pc' = [pc EXCEPT ![l] = "w_loop"]
    /\ UNCHANGED <<listVars, lock, num_listeners, state, token, notifierLocals,
                   timeVars, result, histVars>>

\* Instant::saturating_duration_since: self - earlier, or zero
saturating_duration_since(self, earlier) ==
    IF self > earlier THEN self - earlier ELSE 0

\* Mutant of WaitDeadline: a call that times out cancels the listener
WaitDeadlineCancels(l, d) ==
    /\ pc[l] = "held"
    /\ deadline' = [deadline EXCEPT ![l] = d]
    /\ LET max_park_duration == saturating_duration_since(now, d) IN
       IF max_park_duration # 0
       THEN /\ pc' = [pc EXCEPT ![l] = "d_loop"]
            /\ result' = [result EXCEPT ![l] = "none"]
            /\ UNCHANGED state
       ELSE /\ pc' = pc
            /\ result' = [result EXCEPT ![l] = "timeout"]
            /\ state' = [state EXCEPT ![l] = Dropped]
    /\ UNCHANGED <<listVars, lock, num_listeners, token, notifierLocals,
                   now, histVars>>

\* WaitGuard::wait_deadline: the first max_park_duration and the loop test
WaitDeadline(l, d) ==
    /\ pc[l] = "held"
    /\ deadline' = [deadline EXCEPT ![l] = d]
    /\ LET max_park_duration == saturating_duration_since(now, d) IN
       IF max_park_duration # 0
       THEN /\ pc' = [pc EXCEPT ![l] = "d_loop"]
            /\ result' = [result EXCEPT ![l] = "none"]
       ELSE /\ pc' = pc
            /\ result' = [result EXCEPT ![l] = "timeout"]
    /\ UNCHANGED <<listVars, lock, num_listeners, state, token, notifierLocals,
                   now, histVars>>

\* wait_deadline: the loop body's get_state
DeadlineRead(l) ==
    /\ pc[l] = "d_loop"
    /\ IF get_state(l) = "Waiting"
       THEN /\ pc' = [pc EXCEPT ![l] = "d_park"]
            /\ UNCHANGED result
       ELSE /\ pc' = [pc EXCEPT ![l] = "held"]
            /\ result' = [result EXCEPT ![l] = "ok"]
    /\ UNCHANGED <<listVars, lock, num_listeners, state, token, notifierLocals,
                   timeVars, histVars>>

\* wait_deadline: park_timeout returns (unparked, timed out or spuriously),
\* max_park_duration is computed again and the loop test is made
DeadlinePark(l) ==
    /\ pc[l] = "d_park"
    /\ token' = [token EXCEPT ![l] = FALSE]
    /\ LET max_park_duration == saturating_duration_since(deadline[l], now) IN
       IF max_park_duration # 0
       THEN /\ pc' = [pc EXCEPT ![l] = "d_loop"]
            /\ UNCHANGED result
       ELSE /\ pc' = [pc EXCEPT ![l] = "held"]
            /\ result' = [result EXCEPT ![l] = "timeout"]
    /\ UNCHANGED <<listVars, lock, num_listeners, state, notifierLocals,
                   timeVars, invoked, notified, wakes, removed, call, woken, snap, atstart,
                   listenSince>>

\* Time passes
Tick ==
    /\ now < MaxTime
    /\ now' = now + 1
    /\ UNCHANGED <<listVars, lock, num_listeners, state, token, pc,
                   notifierLocals, deadline, result, histVars>>

\* ------------------------------------------------- Event::notify_one
\* A listen() call holds the mutex
ListenRunning == \E l \in Listeners : pc[l] \in {"l_add", "l_push"}

\* The history of a notify call that returns: its snapshots are forgotten
EndCall(n) ==
    /\ snap' = [snap EXCEPT ![n] = <<>>]
    /\ atstart' = [atstart EXCEPT ![n] = <<>>]

\* The history of a notify call that begins
BeginCall(n, kind) ==
    /\ call' = [call EXCEPT ![n] = kind]
    /\ woken' = [woken EXCEPT ![n] = {}]
    /\ snap' = [snap EXCEPT ![n] = <<>>]
    /\ atstart' = [atstart EXCEPT ![n] = IF num_listeners = 0 THEN <<>> ELSE ChainSeq]
    /\ listenSince' = [listenSince EXCEPT ![n] = ListenRunning]

\* fence, and the load of num_listeners: the zero-count fast path
NotifyOneLoad(n) ==
    /\ Alive
    /\ pc[n] = "idle"
    /\ BeginCall(n, "one")
    /\ pc' = [pc EXCEPT ![n] = IF num_listeners = 0 THEN "idle" ELSE "n1_lock"]
    /\ UNCHANGED <<listVars, lock, num_listeners, state, token, notifierLocals,
                   timeVars, result, invoked, notified, wakes, removed>>

\* chain.lock(); let mut count = 1
NotifyOneLock(n) ==
    /\ pc[n] = "n1_lock"
    /\ lock = None
    /\ lock' = n
    /\ count' = [count EXCEPT ![n] = 1]
    /\ snap' = [snap EXCEPT ![n] = ChainSeq]
    /\ pc' = [pc EXCEPT ![n] = "n1_loop"]
    /\ UNCHANGED <<listVars, num_listeners, state, token, old_node, old_chain,
                   node, current, timeVars, result, invoked, notified, wakes, removed, call,
                   woken, atstart, listenSince>>

\* What notify_one does with the entry it popped: "return" when the chain is
\* exhausted, "break" on a live entry, "discard" on a dropped one
ScanStep(popped) ==
    IF popped = None THEN "return"
    ELSE IF ~is_dropped(popped) THEN "break"
    ELSE "discard"

\* One turn of notify_one's loop: lock.pop_front() and node.is_dropped()
NotifyOnePop(n) ==
    /\ pc[n] = "n1_loop"
    /\ LET r == pop_front(head, tail, next, previous)
           step == ScanStep(r.node) IN
        /\ head' = r.head
        /\ tail' = r.tail
        /\ next' = r.next
        /\ previous' = r.previous
        /\ removed' = [c \in Listeners |->
                          IF c = r.node THEN removed[c] + 1 ELSE removed[c]]
        /\ IF step = "return"
           THEN /\ lock' = None
                /\ pc' = [pc EXCEPT ![n] = "idle"]
                /\ count' = [count EXCEPT ![n] = 0]
                /\ EndCall(n)
                /\ UNCHANGED <<old_node, node>>
           ELSE IF step = "break"
           THEN /\ old_node' = [old_node EXCEPT ![n] = r.node]
                /\ pc' = [pc EXCEPT ![n] = "n1_sub"]
                /\ UNCHANGED <<lock, count, node, snap, atstart>>
           ELSE /\ node' = [node EXCEPT ![n] = r.node]
                /\ pc' = [pc EXCEPT ![n] = "n1_discard"]
                /\ UNCHANGED <<lock, count, old_node, snap, atstart>>
    /\ UNCHANGED <<num_listeners, state, token, old_chain, current, timeVars,
                   result, invoked, notified, wakes, call, woken, listenSince>>

\* The dropped entry goes out of scope with the mutex held: impl Drop for
\* Waker, the compare_exchange
DiscardCas(n) ==
    /\ pc[n] = "n1_discard"
    /\ state' = [state EXCEPT ![node[n]] = WakerDropCas(state[node[n]])]
    /\ pc' = [pc EXCEPT ![n] = "n1_discard_wake"]
    /\ UNCHANGED <<listVars, lock, num_listeners, token, notifierLocals,
                   timeVars, result, histVars>>

\* impl Drop for Waker, inner.wake_by_ref(); then count += 1
DiscardWake(n) ==
    /\ pc[n] = "n1_discard_wake"
    /\ Invoke({node[n]})
    /\ node' = [node EXCEPT ![n] = None]
    /\ count' = [count EXCEPT ![n] = count[n] + 1]
    /\ pc' = [pc EXCEPT ![n] = "n1_loop"]
    /\ UNCHANGED <<listVars, lock, num_listeners, state, old_node, old_chain,
                   current, timeVars, result, notified, wakes, removed, call, woken, snap,
                   atstart, listenSince>>

\* num_listeners.fetch_sub(count) and the mutex released
NotifyOneSub(n) ==
    /\ pc[n] = "n1_sub"
    /\ num_listeners' = num_listeners - count[n]
    /\ lock' = None
    /\ pc' = [pc EXCEPT ![n] = "n1_wake"]
    /\ UNCHANGED <<listVars, state, token, notifierLocals, timeVars, result,
                   histVars>>

\* debug_assert_eq!(left, right) holds
debug_assert_eq(left, right) == left = right

\* Waker::wake on cell c by notifier n: the compare_exchange; on success the
\* wake target is invoked next (pc ok), on failure wake returns false (pc no)
Wake(n, c, ok, no) ==
    /\ state' = [state EXCEPT ![c] = WakeCas(state[c])]
    /\ wakes' = [wakes EXCEPT ![c] = wakes[c] + 1]
    /\ IF state[c] = Waiting
       THEN /\ pc' = [pc EXCEPT ![n] = ok]
            /\ woken' = [woken EXCEPT ![n] = woken[n] \cup {c}]
            /\ notified' = [notified EXCEPT ![c] = notified[c] + 1]
       ELSE /\ pc' = [pc EXCEPT ![n] = no]
            /\ UNCHANGED <<woken, notified>>

\* old_node.wake(): the compare_exchange
NotifyOneWake(n) ==
    /\ pc[n] = "n1_wake"
    /\ Wake(n, old_node[n], "n1_unpark", "n1_drop")
    /\ UNCHANGED <<listVars, lock, num_listeners, token, notifierLocals,
                   timeVars, result, invoked, call, snap, atstart, listenSince,
                   removed>>

\* old_node.wake(): inner.wake_by_ref()
NotifyOneUnpark(n) ==
    /\ pc[n] = "n1_unpark"
    /\ Invoke({old_node[n]})
    /\ pc' = [pc EXCEPT ![n] = "n1_drop"]
    /\ UNCHANGED <<listVars, lock, num_listeners, state, notifierLocals,
                   timeVars, result, notified, wakes, removed, call, woken, snap, atstart,
                   listenSince>>

\* notify_one returns and old_node is dropped: impl Drop for Waker, the
\* compare_exchange
OldNodeDropCas(n) ==
    /\ pc[n] = "n1_drop"
    /\ state' = [state EXCEPT ![old_node[n]] = WakerDropCas(state[old_node[n]])]
    /\ pc' = [pc EXCEPT ![n] = "n1_drop_wake"]
    /\ UNCHANGED <<listVars, lock, num_listeners, token, notifierLocals,
                   timeVars, result, histVars>>

\* impl Drop for Waker, inner.wake_by_ref(); the call is over
OldNodeDropWake(n) ==
    /\ pc[n] = "n1_drop_wake"
    /\ Invoke({old_node[n]})
    /\ old_node' = [old_node EXCEPT ![n] = None]
    /\ count' = [count EXCEPT ![n] = 0]
    /\ pc' = [pc EXCEPT ![n] = "idle"]
    /\ EndCall(n)
    /\ UNCHANGED <<listVars, lock, num_listeners, state, old_chain, node,
                   current, timeVars, result, notified, wakes, removed, call, woken,
                   listenSince>>

\* ------------------------------------------------- Event::notify_all
\* fence, and the load of num_listeners: the zero-count fast path
NotifyAllLoad(n) ==
    /\ Alive
    /\ pc[n] = "idle"
    /\ BeginCall(n, "all")
    /\ pc' = [pc EXCEPT ![n] = IF num_listeners = 0 THEN "idle" ELSE "na_lock"]
    /\ UNCHANGED <<listVars, lock, num_listeners, state, token, notifierLocals,
                   timeVars, result, invoked, notified, wakes, removed>>

\* chain.lock()
NotifyAllLock(n) ==
    /\ pc[n] = "na_lock"
    /\ lock = None
    /\ lock' = n
    /\ pc' = [pc EXCEPT ![n] = "na_take"]
    /\ UNCHANGED <<listVars, num_listeners, state, token, notifierLocals,
                   timeVars, result, histVars>>

\* num_listeners.store(0), old_chain = lock.take_list(), the mutex released,
\* old_chain.iter_mut()
NotifyAllTake(n) ==
    /\ pc[n] = "na_take"
    /\ num_listeners' = 0
    /\ LET r == take_list(head, tail) IN
        /\ head' = r.head
        /\ tail' = r.tail
        /\ old_chain' = [old_chain EXCEPT ![n] = r.taken]
        /\ current' = [current EXCEPT ![n] = r.taken[1]]
        /\ removed' = [c \in Listeners |->
                          IF c \in SeqSet(Nodes(r.taken[1], next))
                          THEN removed[c] + 1 ELSE removed[c]]
    /\ lock' = None
    /\ pc' = [pc EXCEPT ![n] = "na_iter"]
    /\ UNCHANGED <<next, previous, state, token, count, old_node, node,
                   timeVars, result, invoked, notified, call, woken, snap,
                   atstart, listenSince, wakes>>

\* Cursor::next: the next node of old_chain, or the end of the loop, where
\* notify_all returns and old_chain is dropped
NotifyAllNext(n) ==
    /\ pc[n] = "na_iter"
    /\ IF current[n] # None
       THEN /\ node' = [node EXCEPT ![n] = current[n]]
            /\ current' = [current EXCEPT ![n] = next[current[n]]]
            /\ pc' = [pc EXCEPT ![n] = "na_wake"]
       ELSE /\ node' = [node EXCEPT ![n] = None]
            /\ current' = [current EXCEPT ![n] = old_chain[n][1]]
            /\ pc' = [pc EXCEPT ![n] = "ll_drop"]
    /\ UNCHANGED <<listVars, lock, num_listeners, state, token, count,
                   old_node, old_chain, timeVars, result, histVars>>

\* node.wake(): the compare_exchange
NotifyAllWake(n) ==
    /\ pc[n] = "na_wake"
    /\ Wake(n, node[n], "na_unpark", "na_iter")
    /\ UNCHANGED <<listVars, lock, num_listeners, token, notifierLocals,
                   timeVars, result, invoked, call, snap, atstart, listenSince,
                   removed>>

\* node.wake(): inner.wake_by_ref()
NotifyAllUnpark(n) ==
    /\ pc[n] = "na_unpark"
    /\ Invoke({node[n]})
    /\ pc' = [pc EXCEPT ![n] = "na_iter"]
    /\ UNCHANGED <<listVars, lock, num_listeners, state, notifierLocals,
                   timeVars, result, notified, wakes, removed, call, woken, snap, atstart,
                   listenSince>>

\* ------------------------------------------- impl Drop for LinkedList
\* One turn of the loop of LinkedList::drop run by p (a notifier dropping
\* old_chain, or the owner dropping the Event): the next node, or the end
ListDropNext(p) ==
    /\ pc[p] = "ll_drop"
    /\ IF current[p] # None
       THEN /\ node' = [node EXCEPT ![p] = current[p]]
            /\ current' = [current EXCEPT ![p] = next[current[p]]]
            /\ pc' = [pc EXCEPT ![p] = "ll_cas"]
            /\ UNCHANGED old_chain
       ELSE /\ pc' = [pc EXCEPT ![p] = IF p = Owner THEN "dead" ELSE "idle"]
            /\ old_chain' = [n \in Notifiers |->
                                IF n = p THEN <<None, None>> ELSE old_chain[n]]
            /\ UNCHANGED <<node, current>>
    /\ atstart' = [n \in Notifiers |-> IF n = p THEN <<>> ELSE atstart[n]]
    /\ UNCHANGED <<listVars, lock, num_listeners, state, token, count,
                   old_node, timeVars, result, invoked, notified, wakes, removed, call, woken,
                   snap, listenSince>>

\* Box::from_raw(node) is dropped: impl Drop for Waker, the compare_exchange
ListDropCas(p) ==
    /\ pc[p] = "ll_cas"
    /\ state' = [state EXCEPT ![node[p]] = WakerDropCas(state[node[p]])]
    /\ pc' = [pc EXCEPT ![p] = "ll_wake"]
    /\ UNCHANGED <<listVars, lock, num_listeners, token, notifierLocals,
                   timeVars, result, histVars>>

\* impl Drop for Waker, inner.wake_by_ref()
ListDropWake(p) ==
    /\ pc[p] = "ll_wake"
    /\ Invoke({node[p]})
    /\ node' = [node EXCEPT ![p] = None]
    /\ pc' = [pc EXCEPT ![p] = "ll_drop"]
    /\ UNCHANGED <<listVars, lock, num_listeners, state, count, old_node,
                   old_chain, current, timeVars, result, notified, wakes, removed, call, woken,
                   snap, atstart, listenSince>>

\* The Event is dropped, which no call borrowing it can overlap: the chain's
\* LinkedList::drop begins
EventDrop ==
    /\ Alive
    /\ lock = None
    /\ ~ListenRunning
    /\ \A n \in Notifiers : pc[n] = "idle"
    /\ current' = [current EXCEPT ![Owner] = head]
    /\ pc' = [pc EXCEPT ![Owner] = "ll_drop"]
    /\ UNCHANGED <<listVars, lock, num_listeners, state, token, count,
                   old_node, old_chain, node, timeVars, result, histVars>>

\* ------------------------------------------------------------- Next
ListenerStep(l) ==
    \/ Listen(l)
    \/ ListenAdd(l)
    \/ ListenPush(l)
    \/ GuardDrop(l)
    \/ WaitRead(l)
    \/ Park(l)
    \/ ParkSpurious(l)

NotifierStep(n) ==
    \/ NotifyOneLoad(n)
    \/ NotifyOneLock(n)
    \/ NotifyOnePop(n)
    \/ DiscardCas(n)
    \/ DiscardWake(n)
    \/ NotifyOneSub(n)
    \/ NotifyOneWake(n)
    \/ NotifyOneUnpark(n)
    \/ OldNodeDropCas(n)
    \/ OldNodeDropWake(n)
    \/ NotifyAllLoad(n)
    \/ NotifyAllLock(n)
    \/ NotifyAllTake(n)
    \/ NotifyAllNext(n)
    \/ NotifyAllWake(n)
    \/ NotifyAllUnpark(n)

DropStep(p) ==
    \/ ListDropNext(p)
    \/ ListDropCas(p)
    \/ ListDropWake(p)

Next ==
    \/ \E l \in Listeners : ListenerStep(l)
    \/ \E n \in Notifiers : NotifierStep(n)
    \/ \E p \in Notifiers \cup {Owner} : DropStep(p)
    \/ EventDrop

Spec == Init /\ [][Next]_vars

\* -------------------------------------------- other specifications
\* The first notifier thread
FirstNotifier == NumListeners + 1

\* wait_deadline under a clock: listeners register, time out and drop their
\* guards while one thread calls notify_one()
DeadlineListenerStep(l) ==
    \/ Listen(l)
    \/ ListenAdd(l)
    \/ ListenPush(l)
    \/ GuardDrop(l)
    \/ \E d \in Times : WaitDeadline(l, d)
    \/ DeadlineRead(l)
    \/ DeadlinePark(l)

NotifyOneStep(n) ==
    \/ NotifyOneLoad(n)
    \/ NotifyOneLock(n)
    \/ NotifyOnePop(n)
    \/ DiscardCas(n)
    \/ DiscardWake(n)
    \/ NotifyOneSub(n)
    \/ NotifyOneWake(n)
    \/ NotifyOneUnpark(n)
    \/ OldNodeDropCas(n)
    \/ OldNodeDropWake(n)

NextDeadline ==
    \/ \E l \in Listeners : DeadlineListenerStep(l)
    \/ NotifyOneStep(FirstNotifier)
    \/ Tick

SpecDeadline == Init /\ [][NextDeadline]_vars

\* Blocking listeners, one notifier thread and the owner, scheduled fairly:
\* a thread that can take a step of the call it is in takes it, a parked
\* thread whose token is set resumes; nobody is bound to begin a call, and
\* a spurious return of park is never bound to happen
NextLive ==
    \/ \E l \in Listeners : ListenerStep(l)
    \/ NotifierStep(FirstNotifier)
    \/ \E p \in {FirstNotifier, Owner} : DropStep(p)
    \/ EventDrop

Fairness ==
    /\ \A l \in Listeners :
          /\ WF_vars(ListenAdd(l))
          /\ WF_vars(ListenPush(l))
          /\ WF_vars(pc[l] = "w_loop" /\ WaitRead(l))
          /\ WF_vars(Park(l))
    /\ WF_vars(pc[FirstNotifier] # "idle" /\ NotifierStep(FirstNotifier))
    /\ \A p \in {FirstNotifier, Owner} : WF_vars(DropStep(p))

SpecLive == Init /\ [][NextLive]_vars /\ Fairness

\* ----------------------------------------- a LinkedList on its own
\* A LinkedList<usize> used by one caller: node[Owner] is the Box the last
\* pop returned, old_chain[FirstNotifier] the list the last take_list
\* returned; either is dropped when the next one replaces it.
eventVars == <<lock, num_listeners, state, token, pc, count, old_node, current,
               deadline, now, result, histVars>>

\* The list take_list returned
TakenSeq == Nodes(old_chain[FirstNotifier][1], next)

\* Node v is allocated: linked in the list, in the taken list, or popped
Allocated(v) ==
    \/ v \in SeqSet(ChainSeq)
    \/ v \in SeqSet(TakenSeq)
    \/ v = node[Owner]

\* LinkedList::default()
InitList ==
    /\ head = None
    /\ tail = None
    /\ next = [v \in ListNodes |-> None]
    /\ previous = [v \in ListNodes |-> None]
    /\ lock = None
    /\ num_listeners = 0
    /\ state = [c \in Listeners |-> Waiting]
    /\ token = [c \in Listeners |-> FALSE]
    /\ pc = [p \in Listeners \cup Notifiers \cup {Owner} |->
                IF p = Owner THEN "alive" ELSE "idle"]
    /\ count = [n \in Notifiers |-> 0]
    /\ old_node = [n \in Notifiers |-> None]
    /\ old_chain = [n \in Notifiers |-> <<None, None>>]
    /\ node = [n \in Notifiers \cup {Owner} |-> None]
    /\ current = [n \in Notifiers \cup {Owner} |-> None]
    /\ deadline = [c \in Listeners |-> 0]
    /\ now = 0
    /\ result = [c \in Listeners |-> "none"]
    /\ invoked = [c \in Listeners |-> 0]
    /\ notified = [c \in Listeners |-> 0]
    /\ call = [n \in Notifiers |-> "none"]
    /\ woken = [n \in Notifiers |-> {}]
    /\ snap = [n \in Notifiers |-> <<>>]
    /\ atstart = [n \in Notifiers |-> <<>>]
    /\ listenSince = [n \in Notifiers |-> FALSE]
    /\ wakes = [c \in Listeners |-> 0]
    /\ removed = [c \in Listeners |-> 0]

\* The list r that a push or a pop returned becomes the list
SetList(r) ==
    /\ head' = r.head
    /\ tail' = r.tail
    /\ next' = r.next
    /\ previous' = r.previous

\* LinkedList::push_front(v): Node::new and push_node_front
ListPushFront(v) ==
    /\ ~Allocated(v)
    /\ SetList(push_node_front(head, tail, [next EXCEPT ![v] = None],
                               [previous EXCEPT ![v] = None], v))
    /\ UNCHANGED <<node, old_chain, eventVars>>

\* LinkedList::push_back(v): Node::new and push_node_back
ListPushBack(v) ==
    /\ ~Allocated(v)
    /\ SetList(push_node_back(head, tail, [next EXCEPT ![v] = None],
                              [previous EXCEPT ![v] = None], v))
    /\ UNCHANGED <<node, old_chain, eventVars>>

\* LinkedList::pop_front()
ListPopFront ==
    /\ LET r == pop_front(head, tail, next, previous) IN
        /\ SetList(r)
        /\ node' = [node EXCEPT ![Owner] = r.node]
    /\ UNCHANGED <<old_chain, eventVars>>

\* LinkedList::pop_back()
ListPopBack ==
    /\ LET r == pop_back(head, tail, next, previous) IN
        /\ SetList(r)
        /\ node' = [node EXCEPT ![Owner] = r.node]
    /\ UNCHANGED <<old_chain, eventVars>>

\* LinkedList::take_list()
ListTakeList ==
    /\ LET r == take_list(head, tail) IN
        /\ head' = r.head
        /\ tail' = r.tail
        /\ old_chain' = [old_chain EXCEPT ![FirstNotifier] = r.taken]
    /\ UNCHANGED <<next, previous, node, eventVars>>

NextList ==
    \/ \E v \in ListNodes : ListPushFront(v)
    \/ \E v \in ListNodes : ListPushBack(v)
    \/ ListPopFront
    \/ ListPopBack
    \/ ListTakeList

SpecList == InitList /\ [][NextList]_vars

\* linked_list_tests::test_linked_list: push_front of 1, 2, 3, 4 on an empty
\* list, and the values the iteration collects
test_linked_list ==
    LET none == [v \in ListNodes |-> None]
        l1 == push_node_front(None, None, none, none, 1)
        l2 == push_node_front(l1.head, l1.tail, l1.next, l1.previous, 2)
        l3 == push_node_front(l2.head, l2.tail, l2.next, l2.previous, 3)
        l4 == push_node_front(l3.head, l3.tail, l3.next, l3.previous, 4)
    IN  Nodes(l4.head, l4.next)

\* ------------------------------------------------------ definitions
\* The listen() of cell c has pushed its entry and returned
Registered(c) == pc[c] \in {"held", "w_loop", "w_park", "d_loop", "d_park", "done"}

\* The position of c in sequence s (0 when absent)
IndexOf(s, c) == IF c \in SeqSet(s) THEN CHOOSE i \in 1..Len(s) : s[i] = c ELSE 0

\* Notifier n is past the wake() of its notify_one call
AfterWake(n) == pc[n] \in {"n1_unpark", "n1_drop", "n1_drop_wake"}

\* Notifier n holds the mutex inside notify_one's scan
InScan(n) == pc[n] \in {"n1_loop", "n1_discard", "n1_discard_wake", "n1_sub"}

\* ---------------------------------------------------------------- C1
\* C1: a notify_one() call moves at most one cell from Waiting to Notified;
\* the listen() of that cell had pushed its entry before it was woken; and
\* while its guard is held that listener reads Notified from get_state().
C1_NotifyOneWakesAtMostOne ==
    /\ \A n \in Notifiers :
          call[n] = "one" =>
            /\ Cardinality(woken[n]) <= 1
            /\ \A c \in woken[n] : Registered(c)
    /\ \A c \in Listeners :
          (notified[c] > 0 /\ GuardHeld(c)) => get_state(c) = "Notified"

\* C1 witness: a notify_one() call has woken one listener, which holds its
\* guard and reads Notified, while another registered listener is Waiting.
C1_Witness ==
    \E n \in Notifiers : \E c, d \in Listeners :
        /\ call[n] = "one" /\ pc[n] = "idle" /\ woken[n] = {c}
        /\ GuardHeld(c) /\ get_state(c) = "Notified"
        /\ d # c /\ GuardHeld(d) /\ get_state(d) = "Waiting"

\* ---------------------------------------------------------------- C2
\* Notifier n's last call is a notify_all() that has returned, no listen()
\* step ran since it began, and the Event is alive
AfterNotifyAll(n) ==
    /\ call[n] = "all"
    /\ pc[n] = "idle"
    /\ ~listenSince[n]
    /\ Alive

\* No notify call of another thread is in progress
OthersIdle(n) == \A m \in Notifiers \ {n} : pc[m] = "idle"

\* Every listener that holds its guard has been moved to Notified exactly
\* once, the chain is empty and num_listeners is 0
AllWokenOnce ==
    /\ \A c \in Listeners :
          GuardHeld(c) => (notified[c] = 1 /\ get_state(c) = "Notified")
    /\ head = None /\ tail = None
    /\ num_listeners = 0

\* C2 (as claimed): after a notify_all() call with no concurrent listen(),
\* every listener that holds its guard has made exactly one Waiting ->
\* Notified transition, the chain is empty and num_listeners is 0.
C2_NotifyAllWakesAll == \A n \in Notifiers : AfterNotifyAll(n) => AllWokenOnce

\* C2 (amended): the same after a notify_all() call with no concurrent
\* listen() and no notify call of another thread still in progress; and a
\* second notify_all() right after it takes the zero-count fast path,
\* changing no cell state and invoking no wake target.
C2_NotifyAllWakesAllQuiescent ==
    /\ [](\A n \in Notifiers :
            (AfterNotifyAll(n) /\ OthersIdle(n)) => AllWokenOnce)
    /\ [][\A n \in Notifiers :
            (AfterNotifyAll(n) /\ OthersIdle(n) /\ NotifyAllLoad(n)) =>
                /\ pc'[n] = "idle"
                /\ state' = state
                /\ invoked' = invoked
                /\ token' = token]_vars

\* C2 witness: a notify_all() call has returned after waking every listener,
\* each of which holds its guard and reads Notified.
C2_Witness ==
    \E n \in Notifiers :
        /\ AfterNotifyAll(n) /\ OthersIdle(n)
        /\ woken[n] = Listeners
        /\ \A c \in Listeners : GuardHeld(c) /\ get_state(c) = "Notified"

\* ---------------------------------------------------------------- C3
\* C3 (as claimed): when a listener that was registered as the notify_one()
\* call began is still in the chain, Waiting, with its guard held when the
\* call has made its wake(), the call has moved exactly one cell to Notified.
C3_NotifyOneWakesExactlyOne ==
    \A n \in Notifiers :
        (/\ call[n] = "one"
         /\ AfterWake(n)
         /\ \E c \in SeqSet(atstart[n]) :
               c \in SeqSet(ChainSeq) /\ state[c] = Waiting /\ GuardHeld(c))
        => Cardinality(woken[n]) = 1

\* ---------------------------------------------------------------- C4
\* C4: the cell a notify_one() call moved to Notified is the earliest entry,
\* of the chain as the call locked it, that is not Dropped: every entry
\* before it is Dropped, was never notified and is not the call's delivery.
C4_NotifyOneWakesOldestLive ==
    \A n \in Notifiers :
        (call[n] = "one" /\ AfterWake(n)) =>
            \A c \in woken[n] :
                /\ c \in SeqSet(snap[n])
                /\ \A j \in 1..(IndexOf(snap[n], c) - 1) :
                      /\ state[snap[n][j]] = Dropped
                      /\ notified[snap[n][j]] = 0
                      /\ snap[n][j] \notin woken[n]

\* C4 witness: A and B registered, A's guard was dropped, and notify_one()
\* made B Notified while A stays Dropped.
C4_Witness ==
    \E n \in Notifiers : \E a, b \in Listeners :
        /\ call[n] = "one" /\ AfterWake(n)
        /\ snap[n] = <<a, b>>
        /\ woken[n] = {b}
        /\ get_state(a) = "Dropped" /\ notified[a] = 0
        /\ GuardHeld(b) /\ get_state(b) = "Notified"

\* ---------------------------------------------------------------- C5
\* C5 (as claimed): a notify_one() call that found the registry empty or
\* holding only resolved entries changes no cell state and invokes no wake
\* target in any of its steps.
C5_NotifyOneNoOpOnResolved ==
    [][\A n \in Notifiers :
          (/\ call[n] = "one"
           /\ InScan(n)
           /\ \A c \in SeqSet(snap[n]) : state[c] # Waiting
           /\ pc'[n] # pc[n])
          => (state' = state /\ invoked' = invoked /\ token' = token)]_vars

\* ---------------------------------------------------------------- C6
\* C6 (as claimed): wait_deadline returns Timeout only once the deadline has
\* elapsed, never while the deadline is still in the future, and returns
\* Ok only for a cell that is resolved.
C6_TimeoutIffDeadlineElapsed ==
    \A l \in Listeners :
        /\ result[l] = "timeout" => deadline[l] <= now
        /\ result[l] = "ok" => state[l] # Waiting

\* ---------------------------------------------------------------- C7
\* The entry of cell c is in the chain, or popped by a notify_one() call
\* that has not made its wake() yet
InRegistry(c) ==
    \/ c \in SeqSet(ChainSeq)
    \/ \E n \in Notifiers : old_node[n] = c /\ pc[n] \in {"n1_sub", "n1_wake"}

\* A step by which the wait_deadline call of listener l returns Timeout
ReturnsTimeout(l) ==
    /\ (\E d \in Times : WaitDeadline(l, d)) \/ DeadlinePark(l)
    /\ pc'[l] = "held"
    /\ result'[l] = "timeout"

InWait(l) == pc[l] \in {"w_loop", "w_park"}

\* C8: wait() returns only from a cell that is not Waiting, whatever made
\* park return; and under fair scheduling a listener in wait() whose Waker
\* was woken returns and then reads Notified.
C8_WaitReturnsWhenNotified ==
    /\ [][\A l \in Listeners :
            (InWait(l) /\ pc'[l] = "held") => state[l] # Waiting]_vars
    /\ [](\A l \in Listeners : (pc[l] = "held" /\ result[l] = "returned") =>
                                    state[l] # Waiting)
    /\ \A l \in Listeners :
          (InWait(l) /\ notified[l] = 1) ~>
              (pc[l] = "held" /\ result[l] = "returned"
                 /\ get_state(l) = "Notified")

\* C8 witness: the listener read Waiting and has not parked yet when the
\* wake's compare_exchange and unpark landed.
C8_Witness ==
    \E l \in Listeners :
        pc[l] = "w_park" /\ get_state(l) = "Notified" /\ token[l]
                         /\ invoked[l] = 1

\* ---------------------------------------------------------------- C9
\* Thread p is in impl Drop for Waker, before its compare_exchange or
\* before its wake_by_ref
InWakerDropCas(p) == pc[p] \in {"ll_cas", "n1_discard", "n1_drop"}
InWakerDropWake(p) == pc[p] \in {"ll_wake", "n1_discard_wake", "n1_drop_wake"}

\* The Waker thread p is dropping
DropTarget(p) ==
    IF pc[p] \in {"n1_drop", "n1_drop_wake"} THEN old_node[p] ELSE node[p]

\* C9: a Waker that is discarded moves a Waiting cell to Dropped and then
\* invokes the wake target once, whether or not the compare_exchange
\* succeeded; so under fair scheduling a listener in wait() when the Event
\* is torn down returns, and reads Dropped if no notify had woken it.
C9_DiscardedWakerReleasesListener ==
    /\ [][\A p \in Notifiers \cup {Owner} :
            /\ (InWakerDropCas(p) /\ pc'[p] # pc[p]) =>
                  /\ InWakerDropWake(p)'
                  /\ state[DropTarget(p)] = Waiting =>
                        state'[DropTarget(p)] = Dropped
            /\ (InWakerDropWake(p) /\ pc'[p] # pc[p]) =>
                  /\ invoked'[DropTarget(p)] = invoked[DropTarget(p)] + 1
                  /\ token'[DropTarget(p)]]_vars
    /\ \A l \in Listeners :
          (InWait(l) /\ ~Alive) ~> (pc[l] = "held" /\ result[l] = "returned")
    /\ \A l \in Listeners :
          (InWait(l) /\ ~Alive /\ notified[l] = 0) ~>
              (pc[l] = "held" /\ get_state(l) = "Dropped")

\* C9 witness: the Event was torn down with a listener parked on a Waiting
\* cell; the discarded Waker made the cell Dropped and unparked the thread.
C9_Witness ==
    \E l \in Listeners :
        /\ pc[l] = "w_park" /\ token[l]
        /\ ~Alive
        /\ get_state(l) = "Dropped" /\ notified[l] = 0 /\ invoked[l] = 1

\* --------------------------------------------------------------- C10
\* C10 (as claimed): once the guard of a cell was dropped with no wake()
\* having won the cell, no step of a notify call invokes that cell's wake
\* target.
C10_LoserNeverInvokes ==
    [][\A c \in Listeners :
          (pc[c] = "done" /\ notified[c] = 0 /\ Alive)
          => (invoked'[c] = invoked[c] /\ token'[c] = token[c])]_vars

\* --------------------------------------------------------------- C11
\* C11 (as claimed): once a cell is Notified or Dropped no step changes its
\* state again.
C11_ResolvedIsTerminal ==
    [][\A c \in Listeners :
          state[c] \in {Notified, Dropped} => state'[c] = state[c]]_vars

\* --------------------------------------------------------------- C12
\* Notifier n is about to make the compare_exchange of a wake() call
InWake(n) == pc[n] \in {"n1_wake", "na_wake"}

\* The cell of the Waker notifier n calls wake() on
WakeTarget(n) == IF pc[n] = "n1_wake" THEN old_node[n] ELSE node[n]

\* C12: a cell leaves Waiting at most once: a cell that is not Waiting never
\* becomes Waiting again, and no wake() and no Waker discard changes a cell
\* that is not Waiting (only the guard's drop stores over it); wake()
\* returns true at most once per cell, only from Waiting, and never once
\* the guard's drop has stored Dropped.
C12_OneTransitionFromWaiting ==
    /\ [](\A c \in Listeners : notified[c] <= 1)
    /\ [][\A c \in Listeners :
            /\ state[c] # Waiting => state'[c] # Waiting
            /\ (state[c] # Waiting /\ state'[c] # state[c]) =>
                    (pc[c] = "held" /\ pc'[c] = "done")
            /\ notified'[c] # notified[c] =>
                    (state[c] = Waiting /\ state'[c] = Notified)
            /\ pc[c] = "done" =>
                    (notified'[c] = notified[c] /\ state'[c] = Dropped)]_vars

\* C12 witness: the guard's drop won the race against notify_one(): the
\* entry was popped while Waiting, the guard stored Dropped, and wake() then
\* returned false.
C12_Witness ==
    \E n \in Notifiers : \E c \in Listeners :
        /\ pc[n] = "n1_drop" /\ old_node[n] = c
        /\ wakes[c] = 1 /\ notified[c] = 0
        /\ pc[c] = "done" /\ get_state(c) = "Dropped"

\* --------------------------------------------------------------- C13
\* C13: a wake() whose compare_exchange fails observed Dropped, so that its
\* debug assertion holds; it changes no cell, invokes no wake target and
\* leaves the cell Dropped.
C13_FailedWakeSawDropped ==
    [][\A n \in Notifiers :
          (InWake(n) /\ pc'[n] # pc[n] /\ state[WakeTarget(n)] # Waiting) =>
              /\ debug_assert_eq(state[WakeTarget(n)], Dropped)
              /\ state'[WakeTarget(n)] = Dropped
              /\ state' = state
              /\ invoked' = invoked
              /\ token' = token
              /\ woken' = woken]_vars

\* C13 witness: notify_all() took an entry whose guard was then dropped;
\* its wake() returned false on the Dropped cell.
C13_Witness ==
    \E n \in Notifiers : \E c \in Listeners :
        /\ call[n] = "all" /\ pc[n] = "na_iter" /\ node[n] = c
        /\ wakes[c] = 1 /\ c \notin woken[n]
        /\ get_state(c) = "Dropped" /\ invoked[c] = 0

\* --------------------------------------------------------------- C14
\* C14 (as claimed): a thread whose step invokes a wake target does not
\* hold the chain mutex (the owner, who drops the Event, never takes it).
C14_NoWakeUnderLock ==
    [][\A p \in Listeners \cup Notifiers :
          (pc'[p] # pc[p] /\ invoked' # invoked) => lock # p]_vars

\* --------------------------------------------------------------- C15
\* No listen, notify or drop of the Event is in progress
Quiescent ==
    /\ Alive
    /\ ~ListenRunning
    /\ \A n \in Notifiers : pc[n] = "idle"

\* C15 (as claimed): when nothing is in progress and no entry of the chain
\* is Waiting, num_listeners is 0.
C15_CountZeroWhenNoneWaiting ==
    (Quiescent /\ \A c \in SeqSet(ChainSeq) : state[c] # Waiting)
        => num_listeners = 0

\* --------------------------------------------------------------- C16
\* The entries notifier n has taken from the chain and still owns
Held(n) ==
    ({old_node[n], node[n]} \cup SeqSet(Nodes(old_chain[n][1], next))) \ {None}

\* C16: every entry is removed from the chain at most once and has wake()
\* called on it at most once; what two notify calls hold is disjoint, and
\* disjoint from the chain.
C16_NotifiersPopDistinctEntries ==
    /\ \A c \in Listeners : removed[c] <= 1 /\ wakes[c] <= 1
    /\ \A n \in Notifiers :
          /\ Held(n) \cap SeqSet(ChainSeq) = {}
          /\ \A m \in Notifiers \ {n} : Held(n) \cap Held(m) = {}

\* C16 witness: two concurrent notify_one() calls have each popped an
\* entry and are about to wake it.
C16_Witness ==
    \E n, m \in Notifiers :
        /\ n # m
        /\ pc[n] = "n1_wake" /\ pc[m] = "n1_wake"
        /\ old_node[n] # None /\ old_node[m] # None
        /\ old_node[n] # old_node[m]

\* --------------------------------------------------------------- C17
\* C17 (as claimed): when nothing is in progress after a notify_one() call,
\* num_listeners is the number of entries left in the chain.
C17_CountMatchesChainAfterNotifyOne ==
    (Quiescent /\ \E n \in Notifiers : call[n] = "one")
        => num_listeners = Len(ChainSeq)

\* --------------------------------------------------------------- C18
\* Notifier n's step is a notify call that returns on the zero-count fast
\* path
FastPath(n) ==
    /\ NotifyOneLoad(n) \/ NotifyAllLoad(n)
    /\ pc'[n] = "idle"

TakenNotWoken(n, c) ==
    /\ pc[n] \in {"na_iter", "na_wake", "na_unpark"}
    /\ \/ c \in SeqSet(Nodes(current[n], next))
       \/ pc[n] = "na_wake" /\ node[n] = c

\* C19: while the Event is alive, every cell that is Waiting with its guard
\* held has its Waker in the chain, or held by a notify call that has taken
\* it and has not called wake() on it yet.
C19_NoListenerLost ==
    \A c \in Listeners :
        (Alive /\ GuardHeld(c) /\ state[c] = Waiting) =>
            \/ InRegistry(c)
            \/ \E n \in Notifiers : TakenNotWoken(n, c)

\* C19 witness: a listen() ran while a notify_all() was waking the entries
\* it took: the new listener is Waiting in the chain, and the entry the
\* notify_all() is about to wake is Waiting too.
C19_Witness ==
    \E n \in Notifiers : \E c, d \in Listeners :
        /\ pc[n] = "na_wake" /\ node[n] = d /\ listenSince[n]
        /\ GuardHeld(d) /\ state[d] = Waiting
        /\ c # d /\ GuardHeld(c) /\ state[c] = Waiting
        /\ c \in SeqSet(ChainSeq)

\* --------------------------------------------------------------- C20
\* The sequence s in reverse
RECURSIVE Reverse(_)
Reverse(s) == IF s = <<>> THEN <<>> ELSE Append(Reverse(Tail(s)), Head(s))

\* The links of list <<h, t>> are consistent: head is None iff tail is, the
\* walk back from the tail is the walk from the head reversed, and no node
\* occurs twice
Linked(h, t) ==
    /\ (h = None) <=> (t = None)
    /\ NodesBack(t, previous) = Reverse(Nodes(h, next))
    /\ Cardinality(SeqSet(Nodes(h, next))) = Len(Nodes(h, next))

\* C20: under any sequence of push_front, push_back, pop_front, pop_back
\* and take_list the list's links are consistent, each operation acts on
\* the iteration order as on a sequence (push_front prepends, push_back
\* appends, pop_front returns and removes the first element, pop_back the
\* last, take_list returns all elements in order and leaves the list
\* empty), push_front of 1, 2, 3, 4 iterates as 4, 3, 2, 1, and a node that
\* was popped or taken is not reachable from the list.
C20_ListIsSequence ==
    /\ [](Linked(head, tail))
    /\ [](Linked(old_chain[FirstNotifier][1], old_chain[FirstNotifier][2]))
    /\ [](test_linked_list = <<4, 3, 2, 1>>)
    /\ [](/\ node[Owner] \notin SeqSet(ChainSeq) \cup SeqSet(Reverse(NodesBack(tail, previous)))
          /\ SeqSet(TakenSeq) \cap SeqSet(ChainSeq) = {}
          /\ node[Owner] \notin SeqSet(TakenSeq))
    /\ [][/\ \A v \in ListNodes :
                /\ ListPushFront(v) => ChainSeq' = <<v>> \o ChainSeq
                /\ ListPushBack(v) => ChainSeq' = Append(ChainSeq, v)
          /\ ListPopFront =>
                IF ChainSeq = <<>>
                THEN node'[Owner] = None /\ ChainSeq' = <<>>
                ELSE node'[Owner] = Head(ChainSeq) /\ ChainSeq' = Tail(ChainSeq)
          /\ ListPopBack =>
                IF ChainSeq = <<>>
                THEN node'[Owner] = None /\ ChainSeq' = <<>>
                ELSE /\ node'[Owner] = ChainSeq[Len(ChainSeq)]
                     /\ ChainSeq' = SubSeq(ChainSeq, 1, Len(ChainSeq) - 1)
          /\ ListTakeList =>
                /\ TakenSeq' = ChainSeq
                /\ ChainSeq' = <<>>
                /\ head' = None /\ tail' = None]_vars

\* C20 witness: a list has been taken, the list holds two elements again,
\* and a node has been popped that still carries its old next link.
C20_Witness ==
    /\ node[Owner] # None
    /\ Len(TakenSeq) = 1
    /\ Len(ChainSeq) = 2
    /\ next[node[Owner]] # None

====
